---- MODULE Spec2Model ----
(***************************************************************************)
(* Model of the Dexter TTS service (src/main.py): the module-level CUDA    *)
(* device selection, the lifespan model load, and the three HTTP handlers  *)
(* GET /health, GET /service and POST /generate.                           *)
(*                                                                         *)
(* The handlers are `async def` functions without any await, so the event  *)
(* loop runs each of them to completion: one action per handler.           *)
(***************************************************************************)
EXTENDS Integers, Sequences, FiniteSets, TLC

VARIABLES
    devices,        \* what torch.cuda enumerates: a sequence of [name, major, minor]
    fs,             \* the speaker paths that exist on the filesystem
    pc,             \* "import" -> "startup" -> "serving"
    DEVICE,         \* the module global DEVICE
    tts_model,      \* the module global tts_model
    output_dir,     \* the files present in OUTPUT_DIR
    issued,         \* how many uuid4 file names have been drawn
    tts_calls,      \* how many times tts_model.tts_to_file was invoked
    last            \* the last request served and its response

vars == <<devices, fs, pc, DEVICE, tts_model, output_dir, issued, tts_calls, last>>

----------------------------------------------------------------------------
(* Bounds of the model *)

\* longest enumerated device list
MaxDevices == 2
\* number of uuid4 file names drawn (POST /generate requests that reach line 170)
MaxRequests == 2
\* uptimes are sampled up to this many whole days
MaxDays == 1

----------------------------------------------------------------------------
(* Values *)

None == "None"

\* the model handle TTS(...).to(DEVICE) evaluates to
XTTS == "xtts_v2"

\* the substring of line 56, as a sequence of characters
PREFERRED == <<"4", "0", "6", "0">>

\* device names, as sequences of characters
Names ==
    { <<"R", "T", "X", "4", "0", "6", "0">>,
      <<"4", "0", "6", "0", "T", "i">>,
      <<"R", "T", "X", "3", "0", "9", "0">>,
      <<"A", "4", "0", "6", "6", "0">> }

Majors == {7, 8}
Minors == {0, 1, 9, 10}

Devices == [name : Names, major : Majors, minor : Minors]

RECURSIVE SeqsUpTo(_, _)
SeqsUpTo(S, n) ==
    IF n = 0 THEN { <<>> }
    ELSE LET shorter == SeqsUpTo(S, n - 1)
         IN  shorter \cup { Append(s, x) : s \in { t \in shorter : Len(t) = n - 1 }, x \in S }

\* the device lists the service runs are started on
ServiceDeviceLists ==
    { <<>>,
      << [name |-> <<"R", "T", "X", "3", "0", "9", "0">>, major |-> 8, minor |-> 6] >>,
      << [name |-> <<"R", "T", "X", "3", "0", "9", "0">>, major |-> 8, minor |-> 9],
         [name |-> <<"R", "T", "X", "4", "0", "6", "0">>, major |-> 8, minor |-> 6] >> }

DEFAULT_SPEAKER_PATH == "assets/reference.wav"
CUSTOM_SPEAKER_PATH == "/tmp/voice.wav"
SpeakerPaths == {DEFAULT_SPEAKER_PATH, CUSTOM_SPEAKER_PATH}

----------------------------------------------------------------------------
(* Device selection, lines 47-71 *)

\* `sub in s` of Python, on sequences of characters
Contains(sub, s) ==
    \E k \in 0..(Len(s) - Len(sub)) : SubSeq(s, k + 1, k + Len(sub)) = sub

RECURSIVE Pow10(_)
Pow10(n) == IF n = 0 THEN 1 ELSE 10 * Pow10(n - 1)

\* number of characters of the decimal numeral of n >= 0
RECURSIVE Digits(_)
Digits(n) == IF n < 10 THEN 1 ELSE 1 + Digits(n \div 10)

\* float(f"{major}.{minor}"): the numeral "major.minor" read as a decimal
\* fraction, kept exact as num/den
CapabilityFloat(major, minor) ==
    [num |-> major * Pow10(Digits(minor)) + minor, den |-> Pow10(Digits(minor))]

\* a > b on the fractions
FloatGt(a, b) == a.num * b.den > b.num * a.den

\* best_capability = -1.0
InitialCapability == [num |-> 0 - 1, den |-> 1]

\* ScanDevices without the break of line 59: the scan goes on after a
\* preferred name
RECURSIVE ScanDevices_no_break(_, _, _, _)
ScanDevices_no_break(devs, i, best_device_index, best_capability) ==
    IF i >= Len(devs) THEN
        [best_device_index |-> best_device_index, found_4060 |-> FALSE]
    ELSE
        LET props == devs[i + 1]
            current_capability == CapabilityFloat(props.major, props.minor)
        IN  IF Contains(PREFERRED, props.name) THEN
                [ScanDevices_no_break(devs, i + 1, i, best_capability)
                    EXCEPT !.found_4060 = TRUE]
            ELSE IF FloatGt(current_capability, best_capability) THEN
                ScanDevices_no_break(devs, i + 1, i, current_capability)
            ELSE
                ScanDevices_no_break(devs, i + 1, best_device_index, best_capability)

\* the for loop of lines 51-65 from index i (0-based) on
RECURSIVE ScanDevices(_, _, _, _)
ScanDevices(devs, i, best_device_index, best_capability) ==
    IF i >= Len(devs) THEN
        [best_device_index |-> best_device_index, found_4060 |-> FALSE]
    ELSE
        LET props == devs[i + 1]
            current_capability == CapabilityFloat(props.major, props.minor)
        IN  IF Contains(PREFERRED, props.name) THEN
                [best_device_index |-> i, found_4060 |-> TRUE]
            ELSE IF FloatGt(current_capability, best_capability) THEN
                ScanDevices(devs, i + 1, i, current_capability)
            ELSE
                ScanDevices(devs, i + 1, best_device_index, best_capability)

\* lines 47-71: the value bound to DEVICE
SelectDevice(devs) ==
    IF Len(devs) > 0 THEN
        "cuda:" \o ToString(ScanDevices(devs, 0, 0, InitialCapability).best_device_index)
    ELSE
        "cpu"


----------------------------------------------------------------------------
(* Model loader, lines 79-97 *)

\* the try/except of lines 83-94: the handle bound to tts_model when the
\* load raised or did not raise
lifespan_load(raised) == IF raised THEN None ELSE XTTS

----------------------------------------------------------------------------
(* GET /health, lines 106-113 *)

\* health_check that never looks at the model handle
health_check_always_ok(model, device) ==
    [status_code |-> 200,
     content |-> [status |-> "ok", device |-> device, model |-> "xtts_v2"]]

\* health_check whose healthy body leaves the device out
health_check_without_device(model, device) ==
    IF model = None THEN
        [status_code |-> 503,
         content |-> [status |-> "error", detail |-> "Model not loaded"]]
    ELSE
        [status_code |-> 200, content |-> [status |-> "ok", model |-> "xtts_v2"]]

health_check(model, device) ==
    IF model = None THEN
        [status_code |-> 503,
         content |-> [status |-> "error", detail |-> "Model not loaded"]]
    ELSE
        [status_code |-> 200,
         content |-> [status |-> "ok", device |-> device, model |-> "xtts_v2"]]

----------------------------------------------------------------------------
(* GET /service, lines 115-143 *)

\* A float of seconds: its whole part and whether it has a fractional part.
\* divmod(x, n) of a non-negative float by a positive integer
Divmod(x, n) ==
    [q |-> [whole |-> x.whole \div n, frac |-> FALSE],
     r |-> [whole |-> x.whole % n, frac |-> x.frac]]

\* int(x), x >= 0
ToInt(x) == x.whole

\* d > 0 on a float
Positive(x) == x.whole > 0 \/ x.frac

\* format_uptime without the divmod by 24 of line 123: the hours are not
\* reduced
format_uptime_hours_unwrapped(uptime_seconds) ==
    LET ms == Divmod(uptime_seconds, 60)
        s  == ms.r
        hm == Divmod(ms.q, 60)
        m  == hm.r
        h  == hm.q
        d  == Divmod(hm.q, 24).q
    IN  IF Positive(d) THEN
            ToString(ToInt(d)) \o "d " \o ToString(ToInt(h)) \o "h "
                \o ToString(ToInt(m)) \o "m " \o ToString(ToInt(s)) \o "s"
        ELSE
            ToString(ToInt(h)) \o "h " \o ToString(ToInt(m)) \o "m "
                \o ToString(ToInt(s)) \o "s"

\* lines 121-124
format_uptime(uptime_seconds) ==
    LET ms == Divmod(uptime_seconds, 60)
        s  == ms.r
        hm == Divmod(ms.q, 60)
        m  == hm.r
        dh == Divmod(hm.q, 24)
        d  == dh.q
        h  == dh.r
    IN  IF Positive(d) THEN
            ToString(ToInt(d)) \o "d " \o ToString(ToInt(h)) \o "h "
                \o ToString(ToInt(m)) \o "m " \o ToString(ToInt(s)) \o "s"
        ELSE
            ToString(ToInt(h)) \o "h " \o ToString(ToInt(m)) \o "m "
                \o ToString(ToInt(s)) \o "s"

\* lines 116-143; the psutil metrics block is left out
service_status(model, uptime_seconds) ==
    [status_code |-> 200,
     content |->
        [version |-> "0.0.1",
         health |-> [status |-> IF model # None THEN "OK" ELSE "ERROR",
                     uptime |-> format_uptime(uptime_seconds)]]]

----------------------------------------------------------------------------
(* POST /generate, lines 145-191 *)

Texts == {"", "hello"}
Languages == {"en", "fr"}

\* GenerateRequest, lines 101-104, after pydantic has filled the defaults in
GenerateRequests == [text : Texts, language : Languages, speaker_wav : SpeakerPaths]

\* what the calls of lines 173-185 can do:
\*   tts_to_file raises before or after it has written the file, or returns
\*   with or without the file written; open/read raises; os.remove raises
SynthesisOutcomes ==
    { "ok", "tts_raised_before_write", "tts_raised_after_write",
      "tts_wrote_nothing", "read_raised", "remove_raised" }

PASS == [status_code |-> 0]

\* validate with the text check ahead of the model check
validate_text_first(model, request, files) ==
    IF request.text = "" THEN
        [status_code |-> 400, content |-> [detail |-> "Text is required."]]
    ELSE IF model = None THEN
        [status_code |-> 503, content |-> [detail |-> "TTS model is not available."]]
    ELSE IF request.speaker_wav \notin files THEN
        IF request.speaker_wav = DEFAULT_SPEAKER_PATH THEN
            [status_code |-> 500, content |-> [detail |-> "Default reference voice not found"]]
        ELSE
            [status_code |-> 400, content |-> [detail |-> "Speaker wav file not found"]]
    ELSE PASS

\* validate with the speaker check ahead of the text check
validate_speaker_first(model, request, files) ==
    IF model = None THEN
        [status_code |-> 503, content |-> [detail |-> "TTS model is not available."]]
    ELSE IF request.speaker_wav \notin files THEN
        IF request.speaker_wav = DEFAULT_SPEAKER_PATH THEN
            [status_code |-> 500, content |-> [detail |-> "Default reference voice not found"]]
        ELSE
            [status_code |-> 400, content |-> [detail |-> "Speaker wav file not found"]]
    ELSE IF request.text = "" THEN
        [status_code |-> 400, content |-> [detail |-> "Text is required."]]
    ELSE PASS

\* validate that checks the existence of custom speaker paths only
validate_default_unchecked(model, request, files) ==
    IF model = None THEN
        [status_code |-> 503, content |-> [detail |-> "TTS model is not available."]]
    ELSE IF request.text = "" THEN
        [status_code |-> 400, content |-> [detail |-> "Text is required."]]
    ELSE IF request.speaker_wav \notin files
            /\ request.speaker_wav # DEFAULT_SPEAKER_PATH THEN
        [status_code |-> 400, content |-> [detail |-> "Speaker wav file not found"]]
    ELSE PASS

\* lines 148-162: the HTTPException raised, or PASS
validate(model, request, files) ==
    IF model = None THEN
        [status_code |-> 503, content |-> [detail |-> "TTS model is not available."]]
    ELSE IF request.text = "" THEN
        [status_code |-> 400, content |-> [detail |-> "Text is required."]]
    ELSE IF request.speaker_wav \notin files THEN
        IF request.speaker_wav = DEFAULT_SPEAKER_PATH THEN
            [status_code |-> 500, content |-> [detail |-> "Default reference voice not found"]]
        ELSE
            [status_code |-> 400, content |-> [detail |-> "Speaker wav file not found"]]
    ELSE PASS

\* lines 164-191: the response and the state the try block leaves behind
synthesize(model, request, out, n, calls, outcome) ==
    LET output_path == n + 1
        written == out \cup {output_path}
    IN  [response |->
            IF outcome = "ok" THEN
                [status_code |-> 200, media_type |-> "audio/wav",
                 content |-> [audio_of |-> request.text]]
            ELSE
                [status_code |-> 500, content |-> [detail |-> outcome]],
         tts_model |-> model,
         output_dir |->
            CASE outcome = "ok" -> written \ {output_path}
              [] outcome \in {"tts_raised_before_write", "tts_wrote_nothing"} -> out
              [] OTHER -> written,
         issued |-> n + 1,
         tts_calls |-> calls + 1]

\* generate_audio whose except branch assigns the global of line 147
generate_audio_resets_model(model, request, files, out, n, calls, outcome) ==
    LET failed == validate(model, request, files)
        done == synthesize(model, request, out, n, calls, outcome)
    IN  IF failed # PASS THEN
            [response |-> failed, tts_model |-> model, output_dir |-> out,
             issued |-> n, tts_calls |-> calls]
        ELSE IF done.response.status_code = 500 THEN
            [done EXCEPT !.tts_model = None]
        ELSE done

\* lines 146-191
generate_audio(model, request, files, out, n, calls, outcome) ==
    LET failed == validate(model, request, files)
    IN  IF failed # PASS THEN
            [response |-> failed, tts_model |-> model, output_dir |-> out,
             issued |-> n, tts_calls |-> calls]
        ELSE
            synthesize(model, request, out, n, calls, outcome)

----------------------------------------------------------------------------
(* State machine *)

NoRequest == [endpoint |-> "none"]

InitWith(lists, filesystems) ==
    /\ devices \in lists
    /\ fs \in filesystems
    /\ pc = "import"
    /\ DEVICE = None
    /\ tts_model = None
    /\ output_dir = {}
    /\ issued = 0
    /\ tts_calls = 0
    /\ last = NoRequest

Init == InitWith(ServiceDeviceLists, SUBSET SpeakerPaths)

\* module import: lines 45-76
import_module ==
    /\ pc = "import"
    /\ DEVICE' = SelectDevice(devices)
    /\ pc' = "startup"
    /\ UNCHANGED <<devices, fs, tts_model, output_dir, issued, tts_calls, last>>

\* the lifespan handler up to its yield: lines 80-95
lifespan ==
    /\ pc = "startup"
    /\ \E raised \in BOOLEAN : tts_model' = lifespan_load(raised)
    /\ pc' = "serving"
    /\ UNCHANGED <<devices, fs, DEVICE, output_dir, issued, tts_calls, last>>

\* the elapsed times time.time() - START_TIME that are sampled
Uptimes ==
    { [whole |-> d * 86400 + h * 3600 + m * 60 + s, frac |-> f] :
        d \in 0..MaxDays, h \in {0, 1, 23}, m \in {0, 1, 59}, s \in {0, 1, 59},
        f \in BOOLEAN }

get_health ==
    /\ pc = "serving"
    /\ last' = [endpoint |-> "health", response |-> health_check(tts_model, DEVICE)]
    /\ UNCHANGED <<devices, fs, pc, DEVICE, tts_model, output_dir, issued, tts_calls>>

get_service ==
    /\ pc = "serving"
    /\ \E uptime_seconds \in Uptimes :
          last' = [endpoint |-> "service", uptime_seconds |-> uptime_seconds,
                   response |-> service_status(tts_model, uptime_seconds)]
    /\ UNCHANGED <<devices, fs, pc, DEVICE, tts_model, output_dir, issued, tts_calls>>

post_generate ==
    /\ pc = "serving"
    /\ issued < MaxRequests
    /\ \E request \in GenerateRequests, outcome \in SynthesisOutcomes :
          LET r == generate_audio(tts_model, request, fs, output_dir, issued,
                                  tts_calls, outcome)
          IN  /\ last' = [endpoint |-> "generate", request |-> request,
                          response |-> r.response]
              /\ tts_model' = r.tts_model
              /\ output_dir' = r.output_dir
              /\ issued' = r.issued
              /\ tts_calls' = r.tts_calls
    /\ UNCHANGED <<devices, fs, pc, DEVICE>>

Next ==
    \/ import_module
    \/ lifespan
    \/ get_health
    \/ get_service
    \/ post_generate

Spec == Init /\ [][Next]_vars

InitSelect == InitWith(SeqsUpTo(Devices, MaxDevices), {SpeakerPaths})

SpecSelect == InitSelect /\ [][import_module]_vars

----------------------------------------------------------------------------
(* Properties *)

Status == last.response.status_code

IsGenerate == pc = "serving" /\ last.endpoint = "generate"
IsHealth == pc = "serving" /\ last.endpoint = "health"
IsService == pc = "serving" /\ last.endpoint = "service"

\* C1: while the model handle is unset, every POST /generate response has
\* status 503, whatever the text, the language and the speaker path.
C1_UnsetModelGives503 ==
    (IsGenerate /\ tts_model = None) => Status = 503

C1_Witness ==
    /\ IsGenerate /\ tts_model = None
    /\ last.request.text = ""
    /\ last.request.speaker_wav \notin fs
    /\ Status = 503

\* C2 as stated: every POST /generate request whose text is empty gets 400.
C2_EmptyTextGives400 ==
    (IsGenerate /\ last.request.text = "") => Status = 400

\* C2, amended: with the model handle set, every POST /generate request whose
\* text is empty gets 400, whatever its speaker path; with the handle unset
\* it gets 503.
C2_EmptyTextGives400WhenLoaded ==
    (IsGenerate /\ last.request.text = "") =>
        Status = (IF tts_model = None THEN 503 ELSE 400)

C2_Witness ==
    /\ IsGenerate /\ tts_model # None
    /\ last.request.text = ""
    /\ last.request.speaker_wav = DEFAULT_SPEAKER_PATH
    /\ DEFAULT_SPEAKER_PATH \notin fs
    /\ Status = 400

\* C3: a POST /generate request with the model loaded, a non-empty text and
\* a speaker path that does not exist gets 400 for a custom path and 500 for
\* the default path, and the step neither invokes tts_to_file nor draws a
\* file name nor changes the output directory.
C3_MissingSpeakerRejected ==
    [][ ( /\ pc = "serving"
          /\ last'.endpoint = "generate"
          /\ tts_model # None
          /\ last'.request.text # ""
          /\ last'.request.speaker_wav \notin fs )
        => ( /\ last'.response.status_code =
                  (IF last'.request.speaker_wav = DEFAULT_SPEAKER_PATH
                   THEN 500 ELSE 400)
             /\ tts_calls' = tts_calls
             /\ issued' = issued
             /\ output_dir' = output_dir ) ]_vars

C3_Witness ==
    /\ IsGenerate /\ tts_model # None
    /\ last.request.text # ""
    /\ last.request.speaker_wav = DEFAULT_SPEAKER_PATH
    /\ DEFAULT_SPEAKER_PATH \notin fs
    /\ Status = 500
    /\ tts_calls = 1
    /\ output_dir = {}

\* C4: GET /health answers 503 whenever the model is not loaded, and after a
\* successful load answers 200 with the device string the selector chose.
C4_HealthFollowsLoad ==
    IsHealth =>
        IF tts_model = None
        THEN Status = 503
        ELSE /\ Status = 200
             /\ last.response.content.device = DEVICE
             /\ DEVICE = SelectDevice(devices)

C4_Witness ==
    /\ IsHealth /\ tts_model # None
    /\ Status = 200
    /\ last.response.content.device = "cuda:1"

\* C5 as stated: every GET /health response reports the device in use.
C5_HealthAlwaysReportsDevice ==
    IsHealth => "device" \in DOMAIN last.response.content

\* C5, amended: a GET /health response reports the device in use exactly
\* when it is the healthy one (200); the degraded one (503) carries a status
\* and a detail only.
C5_HealthyReportsDevice ==
    IsHealth =>
        /\ ("device" \in DOMAIN last.response.content) <=> (Status = 200)
        /\ Status = 200 => last.response.content.device = DEVICE
        /\ Status # 200 => DOMAIN last.response.content = {"status", "detail"}

C5_Witness ==
    /\ IsHealth /\ tts_model # None
    /\ Status = 200
    /\ last.response.content.device = "cpu"

IsPreferred(dev) == Contains(PREFERRED, dev.name)

\* the first index (0-based) whose device name holds the preferred substring
FirstPreferred(devs) ==
    CHOOSE i \in 0..(Len(devs) - 1) :
        /\ IsPreferred(devs[i + 1])
        /\ \A j \in 0..(i - 1) : ~IsPreferred(devs[j + 1])

\* (major, minor) pairs ranked by major, then minor
Higher(a, b) == a.major > b.major \/ (a.major = b.major /\ a.minor > b.minor)

\* the earliest index (0-based) of a device of the highest capability
FirstHighest(devs) ==
    CHOOSE i \in 0..(Len(devs) - 1) :
        /\ \A j \in 0..(Len(devs) - 1) : ~Higher(devs[j + 1], devs[i + 1])
        /\ \A j \in 0..(i - 1) : Higher(devs[i + 1], devs[j + 1])

\* C6: when some enumerated device name contains "4060", the selector
\* returns the index of the first such device, whatever the capabilities.
C6_PreferredSelected ==
    (pc # "import" /\ \E k \in 1..Len(devices) : IsPreferred(devices[k])) =>
        DEVICE = "cuda:" \o ToString(FirstPreferred(devices))

C6_Witness ==
    /\ pc # "import"
    /\ Len(devices) = 2
    /\ ~IsPreferred(devices[1])
    /\ IsPreferred(devices[2])
    /\ Higher(devices[1], devices[2])
    /\ DEVICE = "cuda:1"

\* C7: when no enumerated device name contains "4060", the selector returns
\* the earliest index of a device of the highest (major, minor) capability.
C7_HighestCapabilitySelected ==
    ( /\ pc # "import"
      /\ Len(devices) > 0
      /\ \A k \in 1..Len(devices) : ~IsPreferred(devices[k]) ) =>
        DEVICE = "cuda:" \o ToString(FirstHighest(devices))

\* the uptime string C8 states for t whole seconds
ExpectedUptime(t) ==
    LET d == t \div 86400
        h == (t \div 3600) % 24
        m == (t \div 60) % 60
        s == t % 60
        hms == ToString(h) \o "h " \o ToString(m) \o "m " \o ToString(s) \o "s"
    IN  IF d = 0 THEN hms ELSE ToString(d) \o "d " \o hms

\* C8: the uptime string of GET /service is "{h}h {m}m {s}s" when the day
\* count is 0 and "{d}d {h}h {m}m {s}s" otherwise; 3600 gives "1h 0m 0s",
\* 90000 gives "1d 1h 0m 0s" and 90061 gives "1d 1h 1m 1s".
C8_UptimeFormat ==
    IsService =>
        LET t == last.uptime_seconds.whole
            uptime == last.response.content.health.uptime
        IN  /\ uptime = ExpectedUptime(t)
            /\ t = 3600 => uptime = "1h 0m 0s"
            /\ t = 90000 => uptime = "1d 1h 0m 0s"
            /\ t = 90061 => uptime = "1d 1h 1m 1s"

C8_Witness ==
    /\ IsService
    /\ last.uptime_seconds = [whole |-> 90061, frac |-> TRUE]
    /\ last.response.content.health.uptime = "1d 1h 1m 1s"

\* C9: once a POST /generate request has completed, with any outcome, no
\* output file is left in the output directory.
C9_NoArtifactLeft ==
    pc = "serving" => output_dir = {}

\* C10: the model handle is written by the loader only, once, before any
\* request is served; no handler changes the handle or the selected device;
\* so /health and /generate answer 503 exactly when the load failed.
C10_HandleWrittenOnce ==
    /\ [][ /\ pc # "startup" => tts_model' = tts_model
           /\ pc # "import" => DEVICE' = DEVICE
           /\ tts_model # None => tts_model' = tts_model
           /\ pc' = "serving" /\ tts_model = None /\ tts_model' # None
                => last' = NoRequest ]_vars
    /\ [](IsHealth \/ IsGenerate => (Status = 503 <=> tts_model = None))

C10_Witness ==
    /\ IsGenerate
    /\ Status = 500
    /\ last.response.content.detail = "tts_raised_after_write"
    /\ tts_model = XTTS
    /\ output_dir # {}
====
